---- MODULE Spec2Model ----
(***************************************************************************)
(* ScenarioQuery (scripts/query_scenarios.py): the scenario filter, the    *)
(* series retriever and the two cache tiers in front of it, with several   *)
(* callers sharing one instance.                                           *)
(*                                                                         *)
(* A DataFrame is [columns, rows]: the set of its column names and the set *)
(* of its rows, each row a record over those columns.  A Python object     *)
(* that can be shared between a caller and a cache tier is [id, df]: two   *)
(* references are the same object iff their ids are equal, and an in-place *)
(* change of an object changes every reference that holds its id.          *)
(***************************************************************************)
EXTENDS Naturals, Integers, Sequences, FiniteSets, TLC

(***************************************************************************)
(* Bounds of the model.                                                    *)
(***************************************************************************)
\* Size of the general tier in the model; the code sets it to 100.
MaxCacheSize == 2
\* Number of get_series calls made on the instance in one behaviour.
MaxCalls == 3
\* Longest filter mapping drawn for the pure-function specifications.
MaxFilterLen == 2

Threads == {1, 2}

Range(s) == {s[i] : i \in 1..Len(s)}

(***************************************************************************)
(* The dataset directory: scenarios.parquet, time.parquet, one parquet per *)
(* variable and variables_map.json.  Parameter values are written as       *)
(* strings.                                                                *)
(***************************************************************************)
scenarios ==
  { [scenario_name |-> "sc_0", P1 |-> "1", P2 |-> "A"],
    [scenario_name |-> "sc_1", P1 |-> "1", P2 |-> "B"],
    [scenario_name |-> "sc_2", P1 |-> "2", P2 |-> "A"],
    [scenario_name |-> "sc_3", P1 |-> "2", P2 |-> "B"] }

\* self.param_cols: the columns of the scenario table except scenario_name
param_cols == <<"P1", "P2">>

\* time.parquet: step -> time
time == [step \in {0, 1} |-> 2020 + step]

\* the time value a left join leaves on a row whose step has no time row
Null == 0 - 1

\* variables_map.json: original name -> safe (storage) name
variables_map ==
  [n \in {"Var One", "Var Gone"} |-> IF n = "Var One" THEN "v1" ELSE "v9"]

\* the variable parquet files of the directory, by stem; a file written by
\* wide_csv_to_long_df has the columns scenario_name, step, value, variable
var_files ==
  [f \in {"v1", "v2"} |->
     IF f = "v1"
       THEN { [scenario_name |-> "sc_0", step |-> 0, value |-> 10, variable |-> "Var One"],
              [scenario_name |-> "sc_1", step |-> 0, value |-> 20, variable |-> "Var One"],
              [scenario_name |-> "sc_2", step |-> 0, value |-> 30, variable |-> "Var One"],
              [scenario_name |-> "sc_3", step |-> 0, value |-> 40, variable |-> "Var One"],
              [scenario_name |-> "sc_0", step |-> 1, value |-> 11, variable |-> "Var One"] }
       ELSE { [scenario_name |-> "sc_0", step |-> 0, value |-> 50, variable |-> "v2"],
              [scenario_name |-> "sc_3", step |-> 1, value |-> 60, variable |-> "v2"],
              [scenario_name |-> "sc_3", step |-> 2, value |-> 61, variable |-> "v2"],
              [scenario_name |-> "sc_9", step |-> 0, value |-> 70, variable |-> "v2"] }]

FileColumns == {"scenario_name", "step", "value", "variable"}

\* Python's order on the strings the model uses (upper case before lower case)
StrOrder == <<"P1", "P2", "Var Gone", "Var One", "bogus", "v1", "v2", "v3", "v9">>

\* a list left in the order it was given
AsGiven(xs) == xs

RECURSIVE SortLoop(_, _)
SortLoop(order, xs) ==
  IF order = <<>>
    THEN <<>>
    ELSE SelectSeq(xs, LAMBDA x : x = Head(order)) \o SortLoop(Tail(order), xs)

\* sorted(xs) for a list of strings; a string given twice stays twice
Sorted(xs) == SortLoop(StrOrder, xs)

(***************************************************************************)
(* Arguments.  `variables` is [str, names]: a single name given as a str,  *)
(* or a list of names.  `filters` is [none, items]: None, or a dict whose  *)
(* items, in insertion order, are [param, kind, vals] with kind "scalar"   *)
(* (vals holds the one value), "list" or "tuple".  `time_range` is <<>>    *)
(* for None and <<start, end>> otherwise.                                  *)
(***************************************************************************)
NoFilters == [none |-> TRUE, items |-> <<>>]
Dict(items) == [none |-> FALSE, items |-> items]
Scalar(p, v) == [param |-> p, kind |-> "scalar", vals |-> <<v>>]
List(p, vs) == [param |-> p, kind |-> "list", vals |-> vs]
Tuple(p, vs) == [param |-> p, kind |-> "tuple", vals |-> vs]
Str(n) == [str |-> TRUE, names |-> <<n>>]
Names(ns) == [str |-> FALSE, names |-> ns]

\* `if filters:` / `not filters`: None and the empty dict are falsy
Truthy(filters) == ~filters.none /\ filters.items # <<>>

EmptyDF == [columns |-> {}, rows |-> {}]

(***************************************************************************)
(* filter_scenarios                                                        *)
(***************************************************************************)
\* one pass of the loop body after the membership test: df.filter(...)
FilterStepFirstOnly(df, e) ==
  IF e.kind \in {"list", "tuple"}
    THEN {r \in df : e.vals # <<>> /\ r[e.param] = e.vals[1]}
    ELSE {r \in df : r[e.param] = e.vals[1]}

FilterStep(df, e) ==
  IF e.kind \in {"list", "tuple"}
    THEN {r \in df : r[e.param] \in Range(e.vals)}
    ELSE {r \in df : r[e.param] = e.vals[1]}

\* `param not in self.param_cols`
UnknownParam(e) == e.param \notin Range(param_cols)

\* the loop over filters.items(): raise at the first unknown key met
RECURSIVE FilterLoop(_, _)
FilterLoop(df, items) ==
  IF items = <<>>
    THEN [kind |-> "ok", rows |-> df, available |-> <<>>]
    ELSE IF UnknownParam(Head(items))
      THEN [kind |-> "ValueError", rows |-> {}, available |-> param_cols]
      ELSE FilterLoop(FilterStep(df, Head(items)), Tail(items))

filter_scenarios_skip_unknown(filters) ==
  FilterLoop(scenarios, SelectSeq(filters.items, LAMBDA e : ~UnknownParam(e)))

filter_scenarios(filters) == FilterLoop(scenarios, filters.items)

(***************************************************************************)
(* _compute_series.  The result is [kind, df, reads, available, path]:     *)
(* kind "ok" with the frame, or the exception raised; reads lists the      *)
(* variable files read, in order, before it returned or raised.            *)
(***************************************************************************)
\* self.variables_map.get(var, var)
SafeName(var) == IF var \in DOMAIN variables_map THEN variables_map[var] ELSE var

\* pl.read_parquet(var_file).filter(pl.col("scenario_name").is_in(scenario_names))
ReadFiltered(safe, scenario_names) ==
  {r \in var_files[safe] : r.scenario_name \in scenario_names}

\* a loop that tests only the first variable's file and skips later ones
\* that are absent
RECURSIVE LoadLoopFirstOnly(_, _, _, _)
LoadLoopFirstOnly(names, scenario_names, rows, reads) ==
  IF names = <<>>
    THEN [kind |-> "ok", rows |-> rows, reads |-> reads, path |-> ""]
    ELSE IF SafeName(Head(names)) \notin DOMAIN var_files
      THEN IF reads = <<>> /\ rows = {}
             THEN [kind |-> "FileNotFoundError", rows |-> {}, reads |-> reads,
                   path |-> SafeName(Head(names))]
             ELSE LoadLoopFirstOnly(Tail(names), scenario_names, rows, reads)
      ELSE LoadLoopFirstOnly(Tail(names), scenario_names,
                    rows \cup ReadFiltered(SafeName(Head(names)), scenario_names),
                    Append(reads, SafeName(Head(names))))

\* the loop over `variables`: raise at the first variable without a file
RECURSIVE LoadLoop(_, _, _, _)
LoadLoop(names, scenario_names, rows, reads) ==
  IF names = <<>>
    THEN [kind |-> "ok", rows |-> rows, reads |-> reads, path |-> ""]
    ELSE IF SafeName(Head(names)) \notin DOMAIN var_files
      THEN [kind |-> "FileNotFoundError", rows |-> {}, reads |-> reads,
            path |-> SafeName(Head(names))]
      ELSE LoadLoop(Tail(names), scenario_names,
                    rows \cup ReadFiltered(SafeName(Head(names)), scenario_names),
                    Append(reads, SafeName(Head(names))))

\* result.join(self.time, on="step", how="left")
JoinTime(df) ==
  [columns |-> df.columns \cup {"time"},
   rows |-> {r @@ [time |-> IF r.step \in DOMAIN time THEN time[r.step] ELSE Null]
               : r \in df.rows}]

\* result.filter((pl.col("time") >= start) & (pl.col("time") <= end)), under
\* `if time_range:`; a null time compares as null and the row is dropped
TimeFilter(df, time_range) ==
  IF time_range # <<>>
    THEN [df EXCEPT !.rows = {r \in @ : /\ r.time # Null
                                        /\ r.time >= time_range[1]
                                        /\ r.time <= time_range[2]}]
    ELSE df

\* result.join(scenarios, on="scenario_name", how="left")
JoinParams(df, scen) ==
  [columns |-> df.columns \cup Range(param_cols),
   rows |-> {r @@ (IF \E s \in scen : s.scenario_name = r.scenario_name
                     THEN LET s == CHOOSE s \in scen : s.scenario_name = r.scenario_name
                          IN [p \in Range(param_cols) |-> s[p]]
                     ELSE [p \in Range(param_cols) |-> "null"])
               : r \in df.rows}]

Raise(kind, reads, available, path) ==
  [kind |-> kind, df |-> EmptyDF, reads |-> reads, available |-> available, path |-> path]

_compute_series(variables, filters, time_range, include_params) ==
  LET fs == IF Truthy(filters)
              THEN filter_scenarios(filters)
              ELSE [kind |-> "ok", rows |-> scenarios, available |-> <<>>]
  IN IF fs.kind # "ok"
       THEN Raise(fs.kind, <<>>, fs.available, "")
       ELSE LET scenario_names == {s.scenario_name : s \in fs.rows}
                loaded == LoadLoop(variables.names, scenario_names, {}, <<>>)
            IN IF loaded.kind # "ok"
                 THEN Raise(loaded.kind, loaded.reads, <<>>, loaded.path)
                 ELSE LET joined == JoinTime([columns |-> FileColumns, rows |-> loaded.rows])
                          windowed == TimeFilter(joined, time_range)
                      IN [kind |-> "ok",
                          df |-> IF include_params
                                   THEN JoinParams(windowed, fs.rows)
                                   ELSE windowed,
                          reads |-> loaded.reads, available |-> <<>>, path |-> ""]

(***************************************************************************)
(* _generate_cache_key and _is_default_scenario                            *)
(***************************************************************************)
\* json.dumps of one filter value: a list and a tuple both give an array
Json(e) == [param |-> e.param, array |-> e.kind \in {"list", "tuple"}, vals |-> e.vals]

\* json.dumps(..., sort_keys=True) of `filters or {}`
JsonFilters(filters) ==
  LET present == SelectSeq(StrOrder, LAMBDA p : \E e \in Range(filters.items) : e.param = p)
  IN [i \in 1..Len(present) |->
        Json(CHOOSE e \in Range(filters.items) : e.param = present[i])]

\* the md5 digest is taken to be one-to-one on the strings it is given
_generate_cache_key(variables, filters, time_range) ==
  [variables |-> Sorted(variables.names),
   filters |-> JsonFilters(filters),
   time_range |-> time_range]

_is_default_scenario(filters) ==
  \/ ~Truthy(filters)
  \/ \A e \in Range(filters.items) : e.kind = "list"

(***************************************************************************)
(* State of one ScenarioQuery instance and of its callers.                 *)
(***************************************************************************)
VARIABLES
  query_cache,             \* self.query_cache, in dict order: <<[key, obj, at], ...>>
  default_scenario_cache,  \* self.default_scenario_cache: name -> object
  cache_lock,              \* self._cache_lock: 0 when free, else the holder
  pc,                      \* where each caller is
  args,                    \* the arguments of each caller's current or last get_series
  result,                  \* get_series' local `result` of each caller
  ret,                     \* what each caller's last get_series returned or raised
  next_id,                 \* identity of the next object created
  calls,                   \* get_series calls started
  fn_in,                   \* input drawn for the pure-function specifications
  fn_out,                  \* what the functions gave for it
  stats,                   \* the dict each caller's get_cache_stats builds
  wide,                    \* each caller's get_series_wide: its call and outcome
  multi                    \* each client's GET /series/multi: request and response

vars == <<query_cache, default_scenario_cache, cache_lock, pc, args, result, ret,
          next_id, calls, fn_in, fn_out, stats, wide, multi>>

\* self.cache_max_size
cache_max_size == MaxCacheSize

\* available_vars[:10]
PrewarmLimit == 10

Query(v, f, tr, ip) ==
  [variables |-> v, filters |-> f, time_range |-> tr, include_params |-> ip]

\* the get_series calls the callers draw from
QueryInputs ==
  { Query(Str("Var One"), NoFilters, <<>>, TRUE),
    Query(Names(<<"Var One">>), NoFilters, <<>>, TRUE),
    Query(Str("Var One"), NoFilters, <<2021, 2021>>, TRUE),
    Query(Str("Var One"), Dict(<<List("P1", <<"1">>)>>), <<>>, TRUE),
    Query(Str("Var One"), Dict(<<Tuple("P1", <<"1">>)>>), <<>>, TRUE),
    Query(Str("Var One"), Dict(<<Scalar("P1", "1")>>), <<>>, TRUE),
    Query(Str("Var One"), Dict(<<Scalar("P1", "1")>>), <<>>, FALSE),
    Query(Str("Var One"), Dict(<<List("bogus", <<"1">>)>>), <<>>, TRUE),
    Query(Str("Var One"), Dict(<<Scalar("bogus", "1")>>), <<>>, TRUE),
    Query(Str("v2"), NoFilters, <<>>, FALSE),
    Query(Str("v3"), NoFilters, <<>>, TRUE) }

KeyOf(q) == _generate_cache_key(q.variables, q.filters, q.time_range)
Compute(q) == _compute_series(q.variables, q.filters, q.time_range, q.include_params)

NoRet == [kind |-> "none", id |-> 0, df |-> EmptyDF, val |-> EmptyDF, path |-> ""]
Returned(obj) ==
  [kind |-> "ok", id |-> obj.id, df |-> obj.df, val |-> obj.df, path |-> ""]
\* an exception leaving get_series; `path` is the file a FileNotFoundError names
Raised(kind, path) ==
  [kind |-> kind, id |-> 0, df |-> EmptyDF, val |-> EmptyDF, path |-> path]

CachedKeys(qc) == {qc[i].key : i \in 1..Len(qc)}
Slot(qc, key) == CHOOSE i \in 1..Len(qc) : qc[i].key = key

(***************************************************************************)
(* __init__ and _initialize_default_cache                                  *)
(***************************************************************************)
\* the stems of the parquet files that have a scenario_name column, each
\* turned back into its original name, in glob order
\* a parquet file of the directory other than scenarios and time: its stem
\* and what reading it gives.  "ok" is a variable file, "no_step" has the
\* scenario_name column but no step column, "plain" has no scenario_name
\* column, "unreadable" makes pl.read_parquet raise.
File(stem, kind) == [stem |-> stem, kind |-> kind]

\* next((k for k, v in self.variables_map.items() if v == var_name), var_name)
Original(stem) ==
  IF \E k \in DOMAIN variables_map : variables_map[k] = stem
    THEN CHOOSE k \in DOMAIN variables_map : variables_map[k] = stem
    ELSE stem

\* the loop over data_dir.glob("*.parquet"): an unreadable file and a file
\* without scenario_name are skipped
Discover(listing) ==
  LET kept == SelectSeq(listing, LAMBDA f : f.kind \in {"ok", "no_step"})
  IN [i \in 1..Len(kept) |-> Original(kept[i].stem)]

\* a pre-warming that gives up at the first variable whose _compute_series
\* raises
PrewarmStopAtFailure(names, computed) ==
  LET first == SubSeq(names, 1,
                      IF Len(names) < PrewarmLimit THEN Len(names) ELSE PrewarmLimit)
      kept == {i \in 1..Len(first) :
                 \A j \in 1..i : computed[first[j]].kind = "ok"}
  IN [n \in {first[i] : i \in kept} |->
        LET i == CHOOSE i \in kept : first[i] = n
        IN [id |-> i, df |-> computed[n].df]]

\* the loop over available_vars[:10]: a variable whose _compute_series raises
\* is skipped; `computed` gives the outcome of _compute_series per name
Prewarm(names, computed) ==
  LET first == SubSeq(names, 1,
                      IF Len(names) < PrewarmLimit THEN Len(names) ELSE PrewarmLimit)
      kept == {i \in 1..Len(first) : computed[first[i]].kind = "ok"}
  IN [n \in {first[i] : i \in kept} |->
        LET i == CHOOSE i \in kept : first[i] = n
        IN [id |-> i, df |-> computed[n].df]]

\* the directory of this instance, in glob order
DirListing ==
  LET stems == SelectSeq(StrOrder, LAMBDA f : f \in DOMAIN var_files)
  IN [i \in 1..Len(stems) |-> File(stems[i], "ok")]

available_vars == Discover(DirListing)

_initialize_default_cache ==
  Prewarm(available_vars,
          [n \in Range(available_vars) |-> _compute_series(Str(n), NoFilters, <<>>, TRUE)])

\* the identity of the first object created after __init__
FirstId == Len(available_vars) + 1

InitArgs == [variables |-> Str("v2"), filters |-> NoFilters,
             time_range |-> <<>>, include_params |-> TRUE]

\* columns_col: None, or a column name
NoColumn == [none |-> TRUE, name |-> ""]
Column(p) == [none |-> FALSE, name |-> p]

\* a pivoted frame: the index values, the value columns, and for each cell the
\* values of the long frame that fall in it
NoFrame == [kind |-> "none", index |-> {}, columns |-> {}, cells |-> {}]

\* no get_series_wide call made yet
NoWide == [state |-> "none", query |-> InitArgs, columns_col |-> NoColumn, out |-> NoFrame]

\* GET /series/multi: the query string of a request.  `filters` is the JSON
\* text, given by whether json.loads accepts it and what it then yields;
\* start_year and end_year are Null when absent.
Request(variable, valid, filters, start_year, end_year, aggregate) ==
  [variable |-> variable, valid |-> valid, filters |-> filters,
   start_year |-> start_year, end_year |-> end_year, aggregate |-> aggregate]

\* what the client receives: the status code, and the detail of an error or
\* the body of a success
Response(status, detail, body) == [status |-> status, detail |-> detail, body |-> body]

NoResponse == Response(0, "", [series |-> <<>>, scenarios |-> {}])

\* no request made yet
NoMulti ==
  [state |-> "none",
   request |-> Request("v2", TRUE, NoFilters, Null, Null, TRUE),
   raised |-> "none", height |-> 0, response |-> NoResponse]

NoStats == [done |-> FALSE, memory_cache_size |-> 0, default_cache_size |-> 0,
            disk_cache_files |-> 0, max_memory_cache_size |-> 0]

\* the instance when __init__ has returned, and callers that called nothing yet
InitInstance ==
  /\ query_cache = <<>>
  /\ default_scenario_cache = _initialize_default_cache
  /\ cache_lock = 0
  /\ pc = [t \in Threads |-> "idle"]
  /\ args = [t \in Threads |-> InitArgs]
  /\ result = [t \in Threads |-> EmptyDF]
  /\ ret = [t \in Threads |-> NoRet]
  /\ next_id = FirstId
  /\ calls = 0
  /\ stats = [t \in Threads |-> NoStats]
  /\ wide = [t \in Threads |-> NoWide]
  /\ multi = [t \in Threads |-> NoMulti]

NotApplied == [done |-> FALSE, filtered |-> filter_scenarios(Dict(<<>>)),
               computed |-> Raise("none", <<>>, <<>>, "")]

Init ==
  /\ InitInstance
  /\ fn_in = InitArgs
  /\ fn_out = NotApplied

(***************************************************************************)
(* get_series                                                              *)
(***************************************************************************)
\* a caller enters get_series(variables, filters, time_range, include_params)
Call(t, q) ==
  /\ pc[t] = "idle"
  /\ calls < MaxCalls
  /\ calls' = calls + 1
  /\ args' = [args EXCEPT ![t] = q]
  /\ ret' = [ret EXCEPT ![t] = NoRet]
  /\ pc' = [pc EXCEPT ![t] = "gs_lookup"]
  /\ UNCHANGED <<query_cache, default_scenario_cache, cache_lock, result,
                 next_id, fn_in, fn_out, stats, wide, multi>>

\* what a general-tier hit hands back: return self.query_cache[cache_key]
Hit(qc, key) == qc[Slot(qc, key)].obj

\* with self._cache_lock: if cache_key in self.query_cache: return ...
\* The block only reads the general tier and every writer of that tier holds
\* the lock, so acquire, test, read and release are one step taken while the
\* lock is free.
Lookup(t) ==
  /\ pc[t] = "gs_lookup"
  /\ cache_lock = 0
  /\ IF KeyOf(args[t]) \in CachedKeys(query_cache)
       THEN /\ ret' = [ret EXCEPT ![t] = Returned(Hit(query_cache, KeyOf(args[t])))]
            /\ pc' = [pc EXCEPT ![t] = "idle"]
       ELSE /\ pc' = [pc EXCEPT ![t] = "gs_default"]
            /\ UNCHANGED ret
  /\ UNCHANGED <<query_cache, default_scenario_cache, cache_lock, args, result,
                 next_id, calls, fn_in, fn_out, stats, wide, multi>>

\* a default-tier test that does not ask whether `variables` is a string
DefaultEligibleAnyShape(q, dc) ==
  /\ _is_default_scenario(q.filters)
  /\ q.variables.names[1] \in DOMAIN dc

\* the condition of the default-tier branch, evaluated without the lock
DefaultEligible(q, dc) ==
  /\ q.variables.str
  /\ _is_default_scenario(q.filters)
  /\ q.variables.names[1] \in DOMAIN dc

DefaultCheck(t) ==
  /\ pc[t] = "gs_default"
  /\ pc' = [pc EXCEPT ![t] =
              IF DefaultEligible(args[t], default_scenario_cache)
                THEN "gs_default_read" ELSE "gs_compute"]
  /\ UNCHANGED <<query_cache, default_scenario_cache, cache_lock, args, result, ret,
                 next_id, calls, fn_in, fn_out, stats, wide, multi>>

\* result = self.default_scenario_cache[variables].clone(), then the time
\* window; the subscript raises KeyError when the entry is gone
DefaultRead(t) ==
  /\ pc[t] = "gs_default_read"
  /\ IF args[t].variables.names[1] \in DOMAIN default_scenario_cache
       THEN /\ result' = [result EXCEPT ![t] =
                 TimeFilter(default_scenario_cache[args[t].variables.names[1]].df,
                            args[t].time_range)]
            /\ pc' = [pc EXCEPT ![t] = "gs_cache"]
            /\ UNCHANGED ret
       ELSE /\ ret' = [ret EXCEPT ![t] = Raised("KeyError", "")]
            /\ pc' = [pc EXCEPT ![t] = "idle"]
            /\ UNCHANGED result
  /\ UNCHANGED <<query_cache, default_scenario_cache, cache_lock, args,
                 next_id, calls, fn_in, fn_out, stats, wide, multi>>

\* result = self._compute_series(variables, filters, time_range, include_params)
\* a variant that makes room in the general tier before it computes
ComputeStepEvictFirst(t) ==
  /\ pc[t] = "gs_compute"
  /\ query_cache' = IF Len(query_cache) >= cache_max_size
                      THEN Tail(query_cache) ELSE query_cache
  /\ IF Compute(args[t]).kind = "ok"
       THEN /\ result' = [result EXCEPT ![t] = Compute(args[t]).df]
            /\ pc' = [pc EXCEPT ![t] = "gs_cache"]
            /\ UNCHANGED ret
       ELSE /\ ret' = [ret EXCEPT ![t] = Raised(Compute(args[t]).kind, Compute(args[t]).path)]
            /\ pc' = [pc EXCEPT ![t] = "idle"]
            /\ UNCHANGED result
  /\ UNCHANGED <<default_scenario_cache, cache_lock, args,
                 next_id, calls, fn_in, fn_out, stats, wide, multi>>

ComputeStep(t) ==
  /\ pc[t] = "gs_compute"
  /\ IF Compute(args[t]).kind = "ok"
       THEN /\ result' = [result EXCEPT ![t] = Compute(args[t]).df]
            /\ pc' = [pc EXCEPT ![t] = "gs_cache"]
            /\ UNCHANGED ret
       ELSE /\ ret' = [ret EXCEPT ![t] = Raised(Compute(args[t]).kind, Compute(args[t]).path)]
            /\ pc' = [pc EXCEPT ![t] = "idle"]
            /\ UNCHANGED result
  /\ UNCHANGED <<query_cache, default_scenario_cache, cache_lock, args,
                 next_id, calls, fn_in, fn_out, stats, wide, multi>>

(***************************************************************************)
(* _cache_result                                                           *)
(***************************************************************************)
\* len(self.query_cache) >= self.cache_max_size
CacheFullOffByOne(qc) == Len(qc) > cache_max_size

CacheFull(qc) == Len(qc) >= cache_max_size

\* oldest_key = next(iter(self.query_cache)); del self.query_cache[oldest_key]
EvictNewest(qc) == SubSeq(qc, 1, Len(qc) - 1)

EvictOldest(qc) == Tail(qc)

\* self.query_cache[cache_key] = obj: a key already present keeps its place
\* in the dict order, a new key goes last.  `at` records when the key entered
\* the tier (the value of the object counter then); the code does not keep it.
Store(qc, key, obj, clock) ==
  IF key \in CachedKeys(qc)
    THEN [qc EXCEPT ![Slot(qc, key)].obj = obj]
    ELSE Append(qc, [key |-> key, obj |-> obj, at |-> clock])

_cache_result(qc, key, obj, clock) ==
  Store(IF CacheFull(qc) THEN EvictOldest(qc) ELSE qc, key, obj, clock)

\* a get_series that also writes what it returns for a single name into the
\* default tier
CacheAndReturnWarming(t) ==
  /\ pc[t] = "gs_cache"
  /\ cache_lock = 0
  /\ query_cache' = _cache_result(query_cache, KeyOf(args[t]),
                                  [id |-> next_id + 1, df |-> result[t]], next_id)
  /\ default_scenario_cache' =
       IF args[t].variables.str
         THEN [n \in DOMAIN default_scenario_cache \cup {args[t].variables.names[1]} |->
                 IF n = args[t].variables.names[1]
                   THEN [id |-> next_id + 1, df |-> result[t]]
                   ELSE default_scenario_cache[n]]
         ELSE default_scenario_cache
  /\ next_id' = next_id + 2
  /\ ret' = [ret EXCEPT ![t] = Returned([id |-> next_id, df |-> result[t]])]
  /\ result' = [result EXCEPT ![t] = EmptyDF]
  /\ pc' = [pc EXCEPT ![t] = "idle"]
  /\ UNCHANGED <<cache_lock, args, calls, fn_in, fn_out, stats, wide, multi>>

\* self._cache_result(cache_key, result); return result.  The tier gets
\* result.clone(), a new object; the caller gets `result` itself.  The body
\* of _cache_result runs under the lock, hence as one step while it is free.
CacheAndReturn(t) ==
  /\ pc[t] = "gs_cache"
  /\ cache_lock = 0
  /\ query_cache' = _cache_result(query_cache, KeyOf(args[t]),
                                  [id |-> next_id + 1, df |-> result[t]], next_id)
  /\ next_id' = next_id + 2
  /\ ret' = [ret EXCEPT ![t] = Returned([id |-> next_id, df |-> result[t]])]
  /\ result' = [result EXCEPT ![t] = EmptyDF]
  /\ pc' = [pc EXCEPT ![t] = "idle"]
  /\ UNCHANGED <<default_scenario_cache, cache_lock, args, calls, fn_in, fn_out, stats, wide, multi>>

(***************************************************************************)
(* clear_cache                                                             *)
(***************************************************************************)
\* with self._cache_lock: self.query_cache.clear()
ClearQueryCache(t) ==
  /\ pc[t] = "idle"
  /\ cache_lock = 0
  /\ cache_lock' = t
  /\ query_cache' = <<>>
  /\ pc' = [pc EXCEPT ![t] = "cc_default"]
  /\ UNCHANGED <<default_scenario_cache, args, result, ret, next_id, calls,
                 fn_in, fn_out, stats, wide, multi>>

\* self.default_scenario_cache.clear(), and the lock is released
\* a variant of the second half of clear_cache that leaves the `with` block
\* without releasing the lock
ClearDefaultCacheKeepLock(t) ==
  /\ pc[t] = "cc_default"
  /\ cache_lock = t
  /\ default_scenario_cache' = [n \in {} |-> [id |-> 0, df |-> EmptyDF]]
  /\ pc' = [pc EXCEPT ![t] = "idle"]
  /\ UNCHANGED <<query_cache, cache_lock, args, result, ret, next_id, calls,
                 fn_in, fn_out, stats, wide, multi>>

ClearDefaultCache(t) ==
  /\ pc[t] = "cc_default"
  /\ cache_lock = t
  /\ default_scenario_cache' = [n \in {} |-> [id |-> 0, df |-> EmptyDF]]
  /\ cache_lock' = 0
  /\ pc' = [pc EXCEPT ![t] = "idle"]
  /\ UNCHANGED <<query_cache, args, result, ret, next_id, calls, fn_in, fn_out, stats, wide, multi>>

(***************************************************************************)
(* get_cache_stats.  The dict is built without the lock, its values        *)
(* evaluated in order: len(self.query_cache), then                         *)
(* len(self.default_scenario_cache), then the two constants.               *)
(***************************************************************************)
\* len(self.query_cache)
MemoryCacheSizeWithDefault(qc, dc) == Len(qc) + Cardinality(DOMAIN dc)

MemoryCacheSize(qc, dc) == Len(qc)

StatsReadMemory(t) ==
  /\ pc[t] = "idle"
  /\ stats' = [stats EXCEPT ![t] =
                 [NoStats EXCEPT !.memory_cache_size =
                                   MemoryCacheSize(query_cache, default_scenario_cache)]]
  /\ pc' = [pc EXCEPT ![t] = "st_default"]
  /\ UNCHANGED <<query_cache, default_scenario_cache, cache_lock, args, result, ret,
                 next_id, calls, fn_in, fn_out, wide, multi>>

StatsReadDefault(t) ==
  /\ pc[t] = "st_default"
  /\ stats' = [stats EXCEPT ![t] =
                 [@ EXCEPT !.done = TRUE,
                           !.default_cache_size = Cardinality(DOMAIN default_scenario_cache),
                           !.disk_cache_files = 0,
                           !.max_memory_cache_size = cache_max_size]]
  /\ pc' = [pc EXCEPT ![t] = "idle"]
  /\ UNCHANGED <<query_cache, default_scenario_cache, cache_lock, args, result, ret,
                 next_id, calls, fn_in, fn_out, wide, multi>>

(***************************************************************************)
(* A caller changes, in place, the frame its last get_series handed it     *)
(* (DataFrame.drop_in_place("value")).  Every reference to that object     *)
(* sees the change.                                                        *)
(***************************************************************************)
DropInPlace(df, col) ==
  [columns |-> df.columns \ {col},
   rows |-> {[c \in DOMAIN r \ {col} |-> r[c]] : r \in df.rows}]

MutateReturned(t) ==
  /\ pc[t] = "idle"
  /\ ret[t].kind = "ok"
  /\ "value" \in ret[t].df.columns
  /\ LET id == ret[t].id
         changed(obj) == IF obj.id = id
                           THEN [obj EXCEPT !.df = DropInPlace(@, "value")]
                           ELSE obj
     IN /\ ret' = [u \in Threads |->
                     IF ret[u].kind = "ok" /\ ret[u].id = id
                       THEN [ret[u] EXCEPT !.df = DropInPlace(@, "value")]
                       ELSE ret[u]]
        /\ query_cache' = [i \in 1..Len(query_cache) |->
                             [query_cache[i] EXCEPT !.obj = changed(@)]]
        /\ default_scenario_cache' =
             [n \in DOMAIN default_scenario_cache |-> changed(default_scenario_cache[n])]
  /\ UNCHANGED <<cache_lock, pc, args, result, next_id, calls, fn_in, fn_out, stats, wide, multi>>

Next ==
  \/ \E t \in Threads : \E q \in QueryInputs : Call(t, q)
  \/ \E t \in Threads : Lookup(t)
  \/ \E t \in Threads : DefaultCheck(t)
  \/ \E t \in Threads : DefaultRead(t)
  \/ \E t \in Threads : ComputeStep(t)
  \/ \E t \in Threads : CacheAndReturn(t)
  \/ \E t \in Threads : ClearQueryCache(t)
  \/ \E t \in Threads : ClearDefaultCache(t)
  \/ \E t \in Threads : MutateReturned(t)

Spec == Init /\ [][Next]_vars

(***************************************************************************)
(* One caller making get_series calls drawn from a wider set of arguments, *)
(* while any caller may run clear_cache beside it.                         *)
(***************************************************************************)
SeriesInputs ==
  QueryInputs \cup
  { Query(Str("Var One"), Dict(<<List("P1", <<"9">>)>>), <<>>, TRUE),
    Query(Str("Var One"), Dict(<<Scalar("P1", "9")>>), <<>>, TRUE),
    Query(Str("Var One"), Dict(<<List("P1", <<"1">>)>>), <<2020, 2020>>, TRUE),
    Query(Str("v3"), Dict(<<Scalar("bogus", "1")>>), <<>>, TRUE),
    Query(Names(<<"Var One", "Var Gone">>), NoFilters, <<>>, TRUE),
    Query(Names(<<"Var One", "v2">>), NoFilters, <<>>, FALSE),
    Query(Str("v2"), NoFilters, <<2020, 2021>>, FALSE) }

NextSeries ==
  \/ \E q \in SeriesInputs : Call(1, q)
  \/ Lookup(1)
  \/ DefaultCheck(1)
  \/ DefaultRead(1)
  \/ ComputeStep(1)
  \/ CacheAndReturn(1)
  \/ \E t \in Threads : ClearQueryCache(t)
  \/ \E t \in Threads : ClearDefaultCache(t)

SpecSeries == Init /\ [][NextSeries]_vars

(***************************************************************************)
(* Callers that also read the cache statistics, over a few get_series      *)
(* arguments.                                                              *)
(***************************************************************************)
StatsInputs ==
  { Query(Str("Var One"), NoFilters, <<>>, TRUE),
    Query(Str("Var One"), Dict(<<Scalar("P1", "1")>>), <<>>, TRUE),
    Query(Str("v2"), Dict(<<Scalar("P1", "1")>>), <<>>, TRUE) }

NextStats ==
  \/ \E t \in Threads : \E q \in StatsInputs : Call(t, q)
  \/ \E t \in Threads : Lookup(t)
  \/ \E t \in Threads : DefaultCheck(t)
  \/ \E t \in Threads : DefaultRead(t)
  \/ \E t \in Threads : ComputeStep(t)
  \/ \E t \in Threads : CacheAndReturn(t)
  \/ \E t \in Threads : ClearQueryCache(t)
  \/ \E t \in Threads : ClearDefaultCache(t)
  \/ \E t \in Threads : StatsReadMemory(t)
  \/ \E t \in Threads : StatsReadDefault(t)

SpecStats == Init /\ [][NextStats]_vars

(***************************************************************************)
(* get_series_wide: get_series with include_params = (columns_col is not   *)
(* None), then drop `variable`, then pivot.                                *)
(***************************************************************************)
\* pivot_col = columns_col if columns_col else "scenario_name"
PivotCol(columns_col) ==
  IF columns_col.none \/ columns_col.name = "" THEN "scenario_name" ELSE columns_col.name

\* long.drop("variable"), under `if "variable" in long.columns`
DropVariable(long) ==
  IF "variable" \in long.columns
    THEN [long EXCEPT !.columns = @ \ {"variable"}]
    ELSE long

\* long.pivot(values=..., index=..., columns=...): a column the frame lacks
\* raises ColumnNotFoundError.  A cell is given as the group of values that
\* fall in it; which of them polars keeps is left to its aggregate default.
Pivot(long, values, index, columns) ==
  IF ~({values, index, columns} \subseteq long.columns)
    THEN [NoFrame EXCEPT !.kind = "ColumnNotFoundError"]
    ELSE [kind |-> "ok",
          index |-> {r[index] : r \in long.rows},
          columns |-> {r[columns] : r \in long.rows},
          cells |-> {[index |-> r[index], column |-> r[columns],
                      values |-> {x[values] : x \in {y \in long.rows :
                                     y[index] = r[index] /\ y[columns] = r[columns]}}]
                       : r \in long.rows}]

\* get_series_wide up to its call of get_series
CallWide(t, q, columns_col) ==
  /\ pc[t] = "idle"
  /\ wide[t].state # "long"
  /\ calls < MaxCalls
  /\ calls' = calls + 1
  /\ args' = [args EXCEPT ![t] = [q EXCEPT !.include_params = ~columns_col.none]]
  /\ ret' = [ret EXCEPT ![t] = NoRet]
  /\ pc' = [pc EXCEPT ![t] = "gs_lookup"]
  /\ wide' = [wide EXCEPT ![t] =
                [state |-> "long",
                 query |-> [q EXCEPT !.include_params = ~columns_col.none],
                 columns_col |-> columns_col, out |-> NoFrame]]
  /\ UNCHANGED <<query_cache, default_scenario_cache, cache_lock, result,
                 next_id, fn_in, fn_out, stats, multi>>

\* get_series_wide after get_series came back: an exception of get_series
\* leaves get_series_wide as it is, a frame is stripped and pivoted
PivotStep(t) ==
  /\ wide[t].state = "long"
  /\ pc[t] = "idle"
  /\ ret[t].kind # "none"
  /\ wide' = [wide EXCEPT ![t] =
                [@ EXCEPT !.state = "done",
                          !.out = IF ret[t].kind = "ok"
                                    THEN Pivot(DropVariable(ret[t].val), "value", "time",
                                               PivotCol(wide[t].columns_col))
                                    ELSE [NoFrame EXCEPT !.kind = ret[t].kind]]]
  /\ UNCHANGED <<query_cache, default_scenario_cache, cache_lock, pc, args, result, ret,
                 next_id, calls, fn_in, fn_out, stats, multi>>

\* the get_series and get_series_wide calls of this specification
LongInputs ==
  { Query(Str("Var One"), Dict(<<Scalar("P2", "A")>>), <<>>, FALSE),
    Query(Str("Var One"), NoFilters, <<>>, TRUE) }

WideInputs ==
  { Query(Str("Var One"), Dict(<<Scalar("P2", "A")>>), <<>>, TRUE),
    Query(Str("Var One"), NoFilters, <<>>, TRUE),
    Query(Str("v2"), NoFilters, <<2020, 2021>>, TRUE) }

WideColumns == {NoColumn, Column("P1")}

NextWide ==
  \/ \E t \in Threads, q \in LongInputs : wide[t].state # "long" /\ Call(t, q)
  \/ \E t \in Threads, q \in WideInputs, c \in WideColumns : CallWide(t, q, c)
  \/ \E t \in Threads : Lookup(t)
  \/ \E t \in Threads : DefaultCheck(t)
  \/ \E t \in Threads : DefaultRead(t)
  \/ \E t \in Threads : ComputeStep(t)
  \/ \E t \in Threads : CacheAndReturn(t)
  \/ \E t \in Threads : PivotStep(t)

SpecWide == Init /\ [][NextWide]_vars

(***************************************************************************)
(* The per-step aggregation of get_series_multi (api_server.py).  Float64  *)
(* numbers are fixed-point integers in units of 1/Scale; a null is Null.   *)
(* The quantile columns p05 and p95 do not enter se or the interval and    *)
(* are left out.                                                           *)
(***************************************************************************)
MaxAggScenarios == 3

Scale == 100

Fx(v) == v * Scale
FMul(a, b) == (a * b) \div Scale
FDiv(a, b) == (a * Scale) \div b

RECURSIVE SqrtSearch(_, _, _)
SqrtSearch(x, lo, hi) ==
  IF lo = hi
    THEN lo
    ELSE LET mid == (lo + hi + 1) \div 2
         IN IF mid * mid <= x THEN SqrtSearch(x, mid, hi) ELSE SqrtSearch(x, lo, mid - 1)

\* Expr.sqrt(); the root of a * Scale lies in 0 .. a + Scale
FSqrt(a) == SqrtSearch(a * Scale, 0, a + Scale)

\* Expr.fill_null(d)
FillNull(x, d) == IF x = Null THEN d ELSE x

RECURSIVE SumValue(_)
SumValue(rows) ==
  IF rows = {} THEN 0
  ELSE LET r == CHOOSE r \in rows : TRUE
       IN Fx(r.value) + SumValue(rows \ {r})

RECURSIVE SumSqDev(_, _)
SumSqDev(rows, mean) ==
  IF rows = {} THEN 0
  ELSE LET r == CHOOSE r \in rows : TRUE
       IN FMul(Fx(r.value) - mean, Fx(r.value) - mean) + SumSqDev(rows \ {r}, mean)

\* pl.col("value").mean()
Mean(rows) == SumValue(rows) \div Cardinality(rows)

\* pl.col("value").std(): the sample deviation, null for a single row
Std(rows) ==
  IF Cardinality(rows) <= 1
    THEN Null
    ELSE FSqrt(SumSqDev(rows, Mean(rows)) \div (Cardinality(rows) - 1))

\* pl.col("scenario_name").n_unique()
NUnique(rows) == Cardinality({r.scenario_name : r \in rows})

\* a standard error that is never divided by sqrt(n)
StdErrUndivided(std, n) == FillNull(std, 0)

\* when(n_scenarios > 1).then(std.fill_null(0) / sqrt(n)).otherwise(std.fill_null(0))
StdErr(std, n) ==
  IF n > 1 THEN FDiv(FillNull(std, 0), FSqrt(Fx(n))) ELSE FillNull(std, 0)

\* the factor 1.96, in hundredths
Z95 == 196

ZTimes(se) == (Z95 * se) \div 100

\* group_by(["step", "time"]).agg(...).with_columns(se).with_columns(ci).sort("step")
Aggregate(data) ==
  LET steps == SelectSeq(<<0, 1>>, LAMBDA s : \E r \in data : r.step = s)
      group(s) == {r \in data : r.step = s}
      row(s) ==
        LET g == group(s)
            se == StdErr(Std(g), NUnique(g))
        IN [step |-> s,
            time |-> (CHOOSE r \in g : TRUE).time,
            mean |-> Mean(g),
            std |-> Std(g),
            min |-> CHOOSE v \in {Fx(r.value) : r \in g} :
                      \A r \in g : v <= Fx(r.value),
            max |-> CHOOSE v \in {Fx(r.value) : r \in g} :
                      \A r \in g : v >= Fx(r.value),
            n_scenarios |-> NUnique(g),
            se |-> se,
            ci_lower |-> Mean(g) - ZTimes(se),
            ci_upper |-> Mean(g) + ZTimes(se)]
  IN [i \in 1..Len(steps) |-> row(steps[i])]

\* the frames get_series hands to the aggregation: one row per scenario and
\* step, as wide_csv_to_long_df writes them, and at least one row
AggScenarios == {<<"sc", i>> : i \in 0..(MaxAggScenarios - 1)}
AggValues == {0, 1, 4}

StepRows(step, names, values) ==
  UNION { { {[scenario_name |-> s, step |-> step, time |-> time[step], value |-> f[s]]
               : s \in ns}
            : f \in [ns -> values] }
          : ns \in SUBSET names }

AggInputs ==
  { first \cup second :
      first \in StepRows(0, AggScenarios, AggValues) \ {{}},
      second \in StepRows(1, {<<"sc", 0>>, <<"sc", 1>>}, {0, 4}) }

NoAgg == [done |-> FALSE, series |-> <<>>]

InitAgg ==
  /\ InitInstance
  /\ fn_in \in AggInputs
  /\ fn_out = NoAgg

ApplyAgg ==
  /\ ~fn_out.done
  /\ fn_out' = [done |-> TRUE, series |-> Aggregate(fn_in)]
  /\ UNCHANGED <<query_cache, default_scenario_cache, cache_lock, pc, args, result,
                 ret, next_id, calls, fn_in, stats, wide, multi>>

NextAgg == ApplyAgg

SpecAgg == InitAgg /\ [][NextAgg]_vars

(***************************************************************************)
(* __init__ on its own, over directories of up to MaxFiles parquet files   *)
(* of which at most two are not variable files.                            *)
(***************************************************************************)
MaxFiles == 12

\* the stems of the directory, in glob order
FileStems ==
  <<"v1", "v2", "f03", "f04", "f05", "f06", "f07", "f08", "f09", "f10",
    "f11", "f12", "f13", "f14">>

BadKinds == {"no_step", "plain", "unreadable"}

Listings ==
  UNION { UNION { { [i \in 1..n |->
                       File(FileStems[i], IF i \in bad THEN k[i] ELSE "ok")]
                    : k \in [bad -> BadKinds] }
                  : bad \in {b \in SUBSET (1..n) : Cardinality(b) <= 2} }
          : n \in 0..MaxFiles }

\* _compute_series(var, None, None, include_params=True) for the variable of
\* a discovered file: the join on step raises when the file has no step column
ComputeFile(f) ==
  IF f.kind # "ok"
    THEN Raise("ColumnNotFoundError", <<>>, <<>>, "")
    ELSE IF f.stem \in DOMAIN var_files
      THEN _compute_series(Str(Original(f.stem)), NoFilters, <<>>, TRUE)
      ELSE [kind |-> "ok",
            df |-> JoinParams(JoinTime([columns |-> FileColumns, rows |-> {}]), scenarios),
            reads |-> <<f.stem>>, available |-> <<>>, path |-> ""]

NotConstructed == [done |-> FALSE]

InitConstruct ==
  /\ query_cache = <<>>
  /\ default_scenario_cache = [n \in {} |-> [id |-> 0, df |-> EmptyDF]]
  /\ cache_lock = 0
  /\ pc = [t \in Threads |-> "idle"]
  /\ args = [t \in Threads |-> InitArgs]
  /\ result = [t \in Threads |-> EmptyDF]
  /\ ret = [t \in Threads |-> NoRet]
  /\ next_id = 1
  /\ calls = 0
  /\ stats = [t \in Threads |-> NoStats]
  /\ wide = [t \in Threads |-> NoWide]
  /\ multi = [t \in Threads |-> NoMulti]
  /\ fn_in \in Listings
  /\ fn_out = NotConstructed

\* __init__ from `self.query_cache = {}` to the end of _initialize_default_cache
Construct ==
  /\ ~fn_out.done
  /\ query_cache' = <<>>
  /\ default_scenario_cache' =
       Prewarm(Discover(fn_in),
               [n \in Range(Discover(fn_in)) |->
                  ComputeFile(CHOOSE f \in Range(fn_in) : Original(f.stem) = n)])
  /\ next_id' = Len(Discover(fn_in)) + 1
  /\ fn_out' = [done |-> TRUE]
  /\ UNCHANGED <<cache_lock, pc, args, result, ret, calls, fn_in, stats, wide, multi>>

NextConstruct == Construct

SpecConstruct == InitConstruct /\ [][NextConstruct]_vars

(***************************************************************************)
(* _generate_cache_key and _compute_series applied to two drawn argument   *)
(* tuples.                                                                 *)
(***************************************************************************)
KeyVariables ==
  { Str("Var One"), Names(<<"Var One">>), Names(<<"Var One", "v2">>),
    Names(<<"v2", "Var One">>), Names(<<"Var One", "Var One">>), Str("v2") }

KeyFilters ==
  { NoFilters, Dict(<<>>),
    Dict(<<Scalar("P1", "1")>>), Dict(<<Scalar("P1", "2")>>),
    Dict(<<Scalar("P2", "1")>>),
    Dict(<<List("P1", <<"1">>)>>), Dict(<<Tuple("P1", <<"1">>)>>),
    Dict(<<List("P1", <<"1", "2">>)>>), Dict(<<List("P1", <<"2", "1">>)>>),
    Dict(<<Scalar("P1", "1"), Scalar("P2", "A")>>),
    Dict(<<Scalar("P2", "A"), Scalar("P1", "1")>>) }

KeyInputs ==
  [variables : KeyVariables, filters : KeyFilters,
   time_range : {<<>>, <<2020, 2021>>, <<2020, 2020>>}, include_params : BOOLEAN]

NoKeys == [done |-> FALSE, keys |-> <<>>, computed |-> <<>>]

InitKey ==
  /\ InitInstance
  /\ fn_in \in KeyInputs \X KeyInputs
  /\ fn_out = NoKeys

ApplyKey ==
  /\ ~fn_out.done
  /\ fn_out' = [done |-> TRUE,
                keys |-> <<KeyOf(fn_in[1]), KeyOf(fn_in[2])>>,
                computed |-> <<Compute(fn_in[1]), Compute(fn_in[2])>>]
  /\ UNCHANGED <<query_cache, default_scenario_cache, cache_lock, pc, args, result,
                 ret, next_id, calls, fn_in, stats, wide, multi>>

NextKey == ApplyKey

SpecKey == InitKey /\ [][NextKey]_vars

(***************************************************************************)
(* Concurrent get_series, clear_cache and get_cache_stats calls under a    *)
(* scheduler that lets every thread that can run take its next step.  A    *)
(* thread waiting for _cache_lock can run whenever the lock is free.       *)
(***************************************************************************)
LiveInputs ==
  { Query(Str("Var One"), NoFilters, <<>>, TRUE),
    Query(Str("v3"), Dict(<<Scalar("bogus", "1")>>), <<>>, TRUE) }

NextLive ==
  \/ \E t \in Threads : \E q \in LiveInputs : Call(t, q)
  \/ \E t \in Threads : Lookup(t)
  \/ \E t \in Threads : DefaultCheck(t)
  \/ \E t \in Threads : DefaultRead(t)
  \/ \E t \in Threads : ComputeStep(t)
  \/ \E t \in Threads : CacheAndReturn(t)
  \/ \E t \in Threads : ClearQueryCache(t)
  \/ \E t \in Threads : ClearDefaultCache(t)
  \/ \E t \in Threads : StatsReadMemory(t)
  \/ \E t \in Threads : StatsReadDefault(t)

\* the next step of a call that thread t has begun
Step(t) ==
  \/ Lookup(t)
  \/ DefaultCheck(t)
  \/ DefaultRead(t)
  \/ ComputeStep(t)
  \/ CacheAndReturn(t)
  \/ ClearDefaultCache(t)
  \/ StatsReadDefault(t)

SpecLive == Init /\ [][NextLive]_vars /\ \A t \in Threads : WF_vars(Step(t))

(***************************************************************************)
(* GET /series/multi (api_server.py, get_series_multi).  The whole body    *)
(* runs inside one try whose handlers turn FileNotFoundError into 404,     *)
(* ValueError into 400 and every other Exception into 500.  HTTPException  *)
(* derives from Exception and from neither of the first two.               *)
(***************************************************************************)
\* the three except clauses at the end of the handler
OuterExcept(kind, text) ==
  IF kind = "FileNotFoundError" THEN Response(404, text, [series |-> <<>>, scenarios |-> {}])
  ELSE IF kind = "ValueError" THEN Response(400, text, [series |-> <<>>, scenarios |-> {}])
  ELSE Response(500, "Error querying multi-scenario data", [series |-> <<>>, scenarios |-> {}])

\* raise HTTPException(status_code=..., detail=...) inside the try
RaiseHTTP(status, detail) == OuterExcept("HTTPException", detail)

\* time_range from start_year and end_year
BuildTimeRange(start_year, end_year) ==
  IF start_year # Null /\ end_year # Null THEN <<start_year, end_year>>
  ELSE IF start_year # Null THEN <<start_year, 2100>>
  ELSE IF end_year # Null THEN <<2020, end_year>>
  ELSE <<>>

\* the part of the handler after get_series returned `data`
Answer(req, data) ==
  IF data.rows = {}
    THEN RaiseHTTP(404, "No scenarios found matching filters")
    ELSE Response(200, "",
           IF req.aggregate
             THEN [series |-> Aggregate(data.rows), scenarios |-> {}]
             ELSE [series |-> <<>>,
                   scenarios |-> {[scenario_name |-> n,
                                   series |-> {[time |-> r.time, value |-> r.value]
                                                 : r \in {x \in data.rows :
                                                            x.scenario_name = n}}]
                                    : n \in {r.scenario_name : r \in data.rows}}])

\* a request whose filters text json.loads rejects
MultiBadJson(t, req) ==
  /\ pc[t] = "idle"
  /\ multi[t].state # "query"
  /\ wide[t].state # "long"
  /\ ~req.valid
  /\ multi' = [multi EXCEPT ![t] =
                 [state |-> "done", request |-> req, raised |-> "JSONDecodeError",
                  height |-> 0,
                  response |-> RaiseHTTP(400, "Invalid JSON in filters parameter")]]
  /\ UNCHANGED <<query_cache, default_scenario_cache, cache_lock, pc, args, result, ret,
                 next_id, calls, fn_in, fn_out, stats, wide>>

\* the handler up to its call of get_series
CallMulti(t, req) ==
  /\ pc[t] = "idle"
  /\ multi[t].state # "query"
  /\ wide[t].state # "long"
  /\ req.valid
  /\ calls < MaxCalls
  /\ calls' = calls + 1
  /\ args' = [args EXCEPT ![t] =
                Query(Str(req.variable), req.filters,
                      BuildTimeRange(req.start_year, req.end_year), TRUE)]
  /\ ret' = [ret EXCEPT ![t] = NoRet]
  /\ pc' = [pc EXCEPT ![t] = "gs_lookup"]
  /\ multi' = [multi EXCEPT ![t] =
                 [state |-> "query", request |-> req, raised |-> "none",
                  height |-> 0, response |-> NoResponse]]
  /\ UNCHANGED <<query_cache, default_scenario_cache, cache_lock, result,
                 next_id, fn_in, fn_out, stats, wide>>

\* the handler after get_series came back
RespondMulti(t) ==
  /\ multi[t].state = "query"
  /\ pc[t] = "idle"
  /\ ret[t].kind # "none"
  /\ multi' = [multi EXCEPT ![t] =
                 [@ EXCEPT !.state = "done",
                           !.raised = IF ret[t].kind = "ok" THEN "none" ELSE ret[t].kind,
                           !.height = Cardinality(ret[t].val.rows),
                           !.response = IF ret[t].kind = "ok"
                                          THEN Answer(multi[t].request, ret[t].val)
                                          ELSE OuterExcept(ret[t].kind, ret[t].path)]]
  /\ UNCHANGED <<query_cache, default_scenario_cache, cache_lock, pc, args, result, ret,
                 next_id, calls, fn_in, fn_out, stats, wide>>

\* the requests of this specification
MultiInputs ==
  { Request("Var One", TRUE, Dict(<<>>), Null, Null, TRUE),
    Request("Var One", TRUE, NoFilters, Null, Null, TRUE),
    Request("Var One", TRUE, Dict(<<Scalar("P1", "1")>>), Null, Null, TRUE),
    Request("Var One", TRUE, Dict(<<Scalar("P1", "1")>>), Null, Null, FALSE),
    Request("Var One", TRUE, Dict(<<Scalar("P1", "9")>>), Null, Null, TRUE),
    Request("Var One", TRUE, Dict(<<List("P1", <<"9">>)>>), Null, Null, TRUE),
    Request("Var One", TRUE, Dict(<<Scalar("bogus", "1")>>), Null, Null, TRUE),
    Request("Var One", FALSE, NoFilters, Null, Null, TRUE),
    Request("v3", TRUE, Dict(<<>>), Null, Null, TRUE),
    Request("Var One", TRUE, Dict(<<Scalar("P1", "1")>>), 2021, Null, TRUE),
    Request("Var One", TRUE, Dict(<<Scalar("P1", "1")>>), Null, 2020, TRUE),
    Request("Var One", TRUE, Dict(<<Scalar("P1", "1")>>), 2021, 2020, TRUE) }

NextMulti ==
  \/ \E q \in MultiInputs : MultiBadJson(1, q)
  \/ \E q \in MultiInputs : CallMulti(1, q)
  \/ Lookup(1)
  \/ DefaultCheck(1)
  \/ DefaultRead(1)
  \/ ComputeStep(1)
  \/ CacheAndReturn(1)
  \/ RespondMulti(1)

SpecMulti == Init /\ [][NextMulti]_vars

(***************************************************************************)
(* The pure functions on their own: filter_scenarios and _compute_series   *)
(* applied to one drawn input on a freshly constructed instance.           *)
(***************************************************************************)
ParamValues(p) ==
  IF p = "P1" THEN {"1", "2", "9"} ELSE IF p = "P2" THEN {"A", "B"} ELSE {"1"}

SeqsUpTo(S, n) == UNION {[1..k -> S] : k \in 0..n}

\* the values one filter entry can take: a scalar, or a list or tuple of up
\* to two values
FilterEntries(p) ==
  {Scalar(p, v) : v \in ParamValues(p)}
    \cup {List(p, vs) : vs \in SeqsUpTo(ParamValues(p), 2)}
    \cup {Tuple(p, vs) : vs \in SeqsUpTo(ParamValues(p), 2)}

AllEntries == UNION {FilterEntries(p) : p \in {"P1", "P2", "bogus"}}

\* dicts of up to MaxFilterLen items, no key twice, in every insertion order
FilterDicts ==
  {Dict(items) : items \in
     {s \in SeqsUpTo(AllEntries, MaxFilterLen) :
        \A i, j \in 1..Len(s) : i # j => s[i].param # s[j].param}}

FnInputs ==
  [variables : {Str("Var One"), Str("v3")}, filters : FilterDicts,
   time_range : {<<>>}, include_params : {TRUE}]

InitFn ==
  /\ InitInstance
  /\ fn_in \in FnInputs
  /\ fn_out = NotApplied

Apply ==
  /\ ~fn_out.done
  /\ fn_out' = [done |-> TRUE,
                filtered |-> filter_scenarios(fn_in.filters),
                computed |-> Compute(fn_in)]
  /\ UNCHANGED <<query_cache, default_scenario_cache, cache_lock, pc, args, result,
                 ret, next_id, calls, fn_in, stats, wide, multi>>

NextFn == Apply

SpecFn == InitFn /\ [][NextFn]_vars

(***************************************************************************)
(* Properties.                                                             *)
(***************************************************************************)
AllKnown(filters) == \A e \in Range(filters.items) : ~UnknownParam(e)

\* the scenarios a filter mapping selects, stated entry by entry
Satisfies(s, e) ==
  IF e.kind = "scalar" THEN s[e.param] = e.vals[1] ELSE s[e.param] \in Range(e.vals)

Selected(filters) ==
  {s \in scenarios : \A e \in Range(filters.items) : Satisfies(s, e)}

StoredIds ==
  {query_cache[i].obj.id : i \in 1..Len(query_cache)}
    \cup {default_scenario_cache[n].id : n \in DOMAIN default_scenario_cache}

\* no clear_cache call has started on the instance
NeverCleared == cache_lock = 0 /\ default_scenario_cache = _initialize_default_cache

\* C1: every row a get_series call returns belongs to a scenario that
\* filter_scenarios(filters) selects, also when every filter value is a list.
C1_RowsWithinFilter ==
  \A t \in Threads :
    (ret[t].kind = "ok" /\ AllKnown(args[t].filters))
      => \A r \in ret[t].val.rows :
           r.scenario_name \in
             {s.scenario_name : s \in filter_scenarios(args[t].filters).rows}

\* C2: what get_series returns is value-equal to what _compute_series gives
\* for the same arguments, in every state of the two tiers.
C2_CacheTransparent ==
  \A t \in Threads :
    ret[t].kind = "ok"
      => /\ Compute(args[t]).kind = "ok"
         /\ ret[t].val = Compute(args[t]).df

\* C3: two get_series calls with identical arguments return value-equal
\* results, whatever happened on the instance between them.
C3_Idempotent ==
  \A t, u \in Threads :
    (ret[t].kind = "ok" /\ ret[u].kind = "ok" /\ args[t] = args[u])
      => ret[t].val = ret[u].val

\* C4: the object a get_series call returned is never the object a cache
\* tier holds.
C4_DefensiveCopy ==
  \A t \in Threads : ret[t].kind = "ok" => ret[t].id \notin StoredIds

\* C5: an insertion of a new key into a full general tier removes exactly the
\* entry inserted earliest among those present and keeps the others in
\* place; an insertion below capacity removes nothing; a hit leaves the tier
\* and its order as they were.
C5_FifoEviction ==
  [][\A t \in Threads :
       /\ (pc[t] = "gs_cache" /\ pc'[t] = "idle"
             /\ KeyOf(args[t]) \notin CachedKeys(query_cache))
            => IF Len(query_cache) = cache_max_size
                 THEN /\ \A i \in 1..Len(query_cache) :
                           query_cache[1].at <= query_cache[i].at
                      /\ Len(query_cache') = cache_max_size
                      /\ SubSeq(query_cache', 1, cache_max_size - 1)
                           = SubSeq(query_cache, 2, cache_max_size)
                      /\ query_cache'[cache_max_size].key = KeyOf(args[t])
                 ELSE /\ Len(query_cache') = Len(query_cache) + 1
                      /\ SubSeq(query_cache', 1, Len(query_cache)) = query_cache
                      /\ query_cache'[Len(query_cache')].key = KeyOf(args[t])
       /\ (pc[t] = "gs_lookup" /\ pc'[t] = "idle") => query_cache' = query_cache
    ]_vars

\* the first result ever inserted was evicted by later insertions: its caller
\* still holds it, its key is gone, the tier is full and was never cleared
C5_Witness ==
  /\ NeverCleared
  /\ Len(query_cache) = cache_max_size
  /\ \E t \in Threads :
       /\ ret[t].kind = "ok"
       /\ ret[t].id = FirstId
       /\ KeyOf(args[t]) \notin CachedKeys(query_cache)
       /\ \A i \in 1..Len(query_cache) : query_cache[i].at > ret[t].id

\* C6: the general tier never holds more than cache_max_size entries.
C6_TierBounded == Len(query_cache) <= cache_max_size

\* the tier is full after more insertions than it has room for
C6_Witness ==
  /\ NeverCleared
  /\ Len(query_cache) = cache_max_size
  /\ next_id >= FirstId + 2 * (cache_max_size + 1)

\* C7: a get_series call with a known variable and known parameters returns
\* a result; it is not failed by a clear_cache running beside it.
C7_CompletesUnderClear ==
  \A t \in Threads :
    (ret[t].kind # "none" /\ Compute(args[t]).kind = "ok") => ret[t].kind = "ok"

\* C8: for a mapping over known parameters filter_scenarios returns exactly
\* the scenarios that satisfy every entry (equality for a scalar, membership
\* for a list or tuple); the empty mapping returns them all.
C8_FilterExact ==
  (fn_out.done /\ AllKnown(fn_in.filters))
    => /\ fn_out.filtered.kind = "ok"
       /\ fn_out.filtered.rows = Selected(fn_in.filters)
       /\ fn_in.filters.items = <<>> => fn_out.filtered.rows = scenarios

\* {"P1": 1} gives exactly the two scenarios with P1 = 1
C8_Witness ==
  /\ fn_out.done
  /\ fn_in.filters = Dict(<<Scalar("P1", "1")>>)
  /\ {s.scenario_name : s \in fn_out.filtered.rows} = {"sc_0", "sc_1"}

\* C9: a mapping with a key that is no parameter column makes
\* filter_scenarios raise the ValueError that lists the parameter columns,
\* wherever the key stands; _compute_series raises it before it has read any
\* variable file, and the tiers are as they were.
C9_UnknownParamRaises ==
  (fn_out.done /\ ~AllKnown(fn_in.filters))
    => /\ fn_out.filtered.kind = "ValueError"
       /\ fn_out.filtered.available = param_cols
       /\ fn_out.computed.kind = "ValueError"
       /\ fn_out.computed.available = param_cols
       /\ fn_out.computed.reads = <<>>
       /\ query_cache = <<>>
       /\ default_scenario_cache = _initialize_default_cache

\* the unknown key comes second, after a known key with a list value
C9_Witness ==
  /\ fn_out.done
  /\ Len(fn_in.filters.items) = 2
  /\ fn_in.filters.items[1] = List("P1", <<"1", "2">>)
  /\ fn_in.filters.items[2].param = "bogus"
  /\ fn_out.filtered.kind = "ValueError"
  /\ fn_out.computed.reads = <<>>

\* C10: get_series with a filter that names an unknown parameter raises the
\* unknown-parameter error in every cache state, and nothing is cached for
\* such a filter.
C10_UnknownParamNeverServed ==
  /\ \A t \in Threads :
       (ret[t].kind # "none" /\ ~AllKnown(args[t].filters))
         => ret[t].kind = "ValueError"
  /\ \A i \in 1..Len(query_cache) :
       \A e \in Range(query_cache[i].key.filters) : ~UnknownParam(e)

\* C11: a filter over known parameters that matches no scenario gives a
\* result with no rows and no error, whether or not the variable is
\* pre-warmed.
C11_NoMatchGivesEmpty ==
  \A t \in Threads :
    (ret[t].kind # "none" /\ AllKnown(args[t].filters)
       /\ Truthy(args[t].filters) /\ Selected(args[t].filters) = {}
       /\ \A n \in Range(args[t].variables.names) : SafeName(n) \in DOMAIN var_files)
      => (ret[t].kind = "ok" /\ ret[t].val.rows = {})

\* C12: the result of get_series has the scenario parameter columns if and
\* only if include_params is true, in every cache state.
C12_ParamsIffRequested ==
  \A t \in Threads :
    ret[t].kind = "ok"
      => (Range(param_cols) \subseteq ret[t].val.columns <=> args[t].include_params)

\* a clear_cache by another caller has emptied the general tier and not yet
\* the default tier, which still holds entries
MidClear(t) ==
  /\ \E u \in Threads \ {t} : pc[u] = "cc_default"
  /\ DOMAIN default_scenario_cache # {}

\* caller t reads the default tier in this step (get_series' test or
\* subscript, get_cache_stats' len)
ReadsDefaultTier(t) ==
  /\ pc[t] \in {"gs_default", "gs_default_read", "st_default"}
  /\ pc'[t] # pc[t]

\* C13: clear_cache empties the two tiers as one atomic step: no get_series
\* or get_cache_stats running beside it reads the default tier's old entries
\* after the general tier was emptied; and when clear_cache returns with no
\* other call in flight both tiers are empty.
C13_ClearAtomic ==
  [][\A t \in Threads :
       /\ MidClear(t) => ~ReadsDefaultTier(t)
       /\ (pc[t] = "cc_default" /\ pc'[t] = "idle"
             /\ \A u \in Threads \ {t} : pc[u] = "idle")
            => (query_cache' = <<>> /\ DOMAIN default_scenario_cache' = {})
    ]_vars

\* C20: get_cache_stats reports the number of general-tier entries, the
\* number of default-tier entries and cache_max_size, each as it stands when
\* the call reads it, and changes neither tier nor the insertion order of the
\* general tier.
C20_StatsFrame ==
  [][\A t \in Threads :
       /\ (pc[t] = "idle" /\ pc'[t] = "st_default")
            => /\ stats'[t].memory_cache_size = Len(query_cache)
               /\ query_cache' = query_cache
               /\ default_scenario_cache' = default_scenario_cache
       /\ (pc[t] = "st_default" /\ pc'[t] = "idle")
            => /\ stats'[t].done
               /\ stats'[t].memory_cache_size = stats[t].memory_cache_size
               /\ stats'[t].default_cache_size
                    = Cardinality(DOMAIN default_scenario_cache)
               /\ stats'[t].max_memory_cache_size = cache_max_size
               /\ query_cache' = query_cache
               /\ default_scenario_cache' = default_scenario_cache
    ]_vars

\* a completed get_cache_stats that saw entries in both tiers
C20_Witness ==
  \E t \in Threads :
    /\ stats[t].done
    /\ stats[t].memory_cache_size = Len(query_cache)
    /\ stats[t].memory_cache_size >= 1
    /\ stats[t].default_cache_size >= 1

\* the storage keys of the requested variables that have no parquet file,
\* in request order
MissingFiles(variables) ==
  SelectSeq([i \in 1..Len(variables.names) |->
               IF variables.names[i] \in DOMAIN variables_map
                 THEN variables_map[variables.names[i]]
                 ELSE variables.names[i]],
            LAMBDA f : f \notin DOMAIN var_files)

\* no general-tier entry was stored for a request naming a variable without a file
NoMissingCached ==
  \A i \in 1..Len(query_cache) :
    MissingFiles([names |-> query_cache[i].key.variables]) = <<>>

\* C14 as stated: get_series raises FileNotFoundError naming the resolved
\* path whenever a requested variable has no backing file, whatever the
\* filters, and caches nothing for that call.
C14_MissingFileRaises ==
  /\ NoMissingCached
  /\ \A t \in Threads :
       (ret[t].kind # "none" /\ MissingFiles(args[t].variables) # <<>>)
         => /\ ret[t].kind = "FileNotFoundError"
            /\ ret[t].path = Head(MissingFiles(args[t].variables))

\* C14, amended: get_series raises FileNotFoundError naming the resolved path
\* of the first requested variable without a backing file, whenever there is
\* one and the filters name only known parameters; nothing is cached for the
\* call.  (With an unknown filter parameter the ValueError of
\* filter_scenarios is raised first.)
C14_MissingFileRaisesKnownFilters ==
  /\ NoMissingCached
  /\ \A t \in Threads :
       (ret[t].kind # "none" /\ MissingFiles(args[t].variables) # <<>>
          /\ AllKnown(args[t].filters))
         => /\ ret[t].kind = "FileNotFoundError"
            /\ ret[t].path = Head(MissingFiles(args[t].variables))

\* a mapped name without a file, requested after a variable that has one
C14_Witness ==
  /\ args[1].variables = Names(<<"Var One", "Var Gone">>)
  /\ ret[1].kind = "FileNotFoundError"
  /\ ret[1].path = "v9"

\* the file rows a request retains: those of the requested variables whose
\* scenario is among the ones the filters select
RetainedRows(q) ==
  UNION { {r \in var_files[SafeName(n)] :
             r.scenario_name \in {s.scenario_name : s \in Selected(q.filters)}}
          : n \in Range(q.variables.names) }

\* the request reaches the joins: known filter keys, every variable has a file
Loadable(q) == AllKnown(q.filters) /\ MissingFiles(q.variables) = <<>>

\* C15: when a retained variable row has a step with no row in the time
\* table, get_series aborts with a data-integrity error; it neither returns
\* the row with a missing time nor drops it under a time window.
C15_UnmatchedStepAborts ==
  \A t \in Threads :
    (ret[t].kind # "none" /\ Loadable(args[t])
       /\ \E r \in RetainedRows(args[t]) : r.step \notin DOMAIN time)
      => ret[t].kind = "DataIntegrityError"

\* a row without the parameter columns
Core(r) == [c \in {"scenario_name", "variable", "step", "time", "value"} |-> r[c]]

\* the same request without its time window
Unwindowed(q) == [q EXCEPT !.time_range = <<>>]

C17_VariableColumnIffSeveral ==
  \A t \in Threads :
    ret[t].kind = "ok"
      => ("variable" \in ret[t].val.columns <=> Len(args[t].variables.names) > 1)

\* the long frame a get_series_wide call is to pivot: its request computed
\* with the parameters joined
WideReference(w) == Compute([w.query EXCEPT !.include_params = TRUE]).df.rows

\* C18: get_series_wide with columns_col a known parameter P returns a table
\* keyed by time with one value column per distinct value of P among the
\* matched scenarios, whatever calls were made on the instance before; with
\* columns_col = None it returns one column per matched scenario_name.
C18_WideColumns ==
  \A t \in Threads :
    (wide[t].state = "done" /\ Loadable(wide[t].query))
      => /\ wide[t].out.kind = "ok"
         /\ wide[t].out.index = {r.time : r \in WideReference(wide[t])}
         /\ wide[t].out.columns
              = {r[PivotCol(wide[t].columns_col)] : r \in WideReference(wide[t])}

\* C19: in the per-step aggregation the standard error is std / sqrt(n) when
\* the step's number of distinct scenarios n exceeds 1 and 0 when n <= 1 (a
\* null std counting as 0), so ci_lower = ci_upper = mean at every step with
\* n <= 1 and ci_lower <= mean <= ci_upper at every step.
C19_StandardError ==
  fn_out.done =>
    \A i \in 1..Len(fn_out.series) :
      LET s == fn_out.series[i]
          n == Cardinality({r.scenario_name : r \in {x \in fn_in : x.step = s.step}})
          std0 == IF s.std = Null THEN 0 ELSE s.std
      IN /\ n > 1 => s.se = FDiv(std0, FSqrt(Fx(n)))
         /\ n <= 1 => (s.se = 0 /\ s.ci_lower = s.mean /\ s.ci_upper = s.mean)
         /\ s.ci_lower <= s.mean /\ s.mean <= s.ci_upper

\* a step with one scenario beside a step with several scenarios that
\* differ, whose interval is proper
C19_Witness ==
  /\ fn_out.done
  /\ \E i \in 1..Len(fn_out.series) :
       fn_out.series[i].n_scenarios = 1 /\ fn_out.series[i].std = Null
  /\ \E i \in 1..Len(fn_out.series) :
       /\ fn_out.series[i].n_scenarios > 1
       /\ fn_out.series[i].se > 0
       /\ fn_out.series[i].se < fn_out.series[i].std
       /\ fn_out.series[i].ci_lower < fn_out.series[i].mean

\* the filter is absent, empty, or gives a list for every parameter
AnyOnEveryParameter(filters) ==
  \/ filters.none
  \/ filters.items = <<>>
  \/ \A i \in 1..Len(filters.items) : filters.items[i].kind = "list"

\* C21: get_series consults the general tier first, by key; only on a miss
\* the default tier, and only for a single name held there with a filter
\* that is absent, empty or all lists; only when that misses too does it
\* compute.  On both paths past the general tier the returned result is
\* stored under the query's key, and a call whose key is stored is a
\* general-tier hit.
C21_LookupOrder ==
  [][\A t \in Threads :
       /\ (pc[t] = "gs_lookup" /\ pc'[t] = "idle")
            => /\ KeyOf(args[t]) \in CachedKeys(query_cache)
               /\ ret'[t].kind = "ok"
               /\ \E i \in 1..Len(query_cache) :
                    /\ query_cache[i].key = KeyOf(args[t])
                    /\ ret'[t].id = query_cache[i].obj.id
                    /\ ret'[t].val = query_cache[i].obj.df
       /\ (pc[t] = "gs_lookup" /\ pc'[t] = "gs_default")
            => KeyOf(args[t]) \notin CachedKeys(query_cache)
       /\ (pc[t] = "gs_default" /\ pc'[t] = "gs_default_read")
            => /\ args[t].variables.str
               /\ args[t].variables.names[1] \in DOMAIN default_scenario_cache
               /\ AnyOnEveryParameter(args[t].filters)
       /\ (pc[t] = "gs_default" /\ pc'[t] = "gs_compute")
            => ~(/\ args[t].variables.str
                 /\ args[t].variables.names[1] \in DOMAIN default_scenario_cache
                 /\ AnyOnEveryParameter(args[t].filters))
       /\ (pc[t] = "gs_default_read" /\ pc'[t] = "gs_cache")
            => result'[t] = TimeFilter(
                 default_scenario_cache[args[t].variables.names[1]].df,
                 args[t].time_range)
       /\ (pc[t] = "gs_compute" /\ pc'[t] = "gs_cache")
            => result'[t] = Compute(args[t]).df
       /\ (pc[t] = "gs_cache" /\ pc'[t] = "idle")
            => /\ ret'[t].kind = "ok"
               /\ ret'[t].val = result[t]
               /\ \E i \in 1..Len(query_cache') :
                    /\ query_cache'[i].key = KeyOf(args[t])
                    /\ query_cache'[i].obj.df = result[t]
    ]_vars

\* a repeated call served from the general tier what a default-tier read
\* had stored there
C21_Witness ==
  /\ NeverCleared
  /\ pc[1] = "idle"
  /\ ret[1].kind = "ok"
  /\ args[1].variables = Str("Var One")
  /\ args[1].filters = NoFilters
  /\ \E i \in 1..Len(query_cache) :
       /\ query_cache[i].key = KeyOf(args[1])
       /\ ret[1].id = query_cache[i].obj.id

\* C22: after __init__ no get_series call adds, replaces or removes a
\* default-tier entry: the tier changes only when clear_cache empties it, no
\* insertion into the general tier evicts from it, and once emptied it stays
\* empty.
C22_DefaultTierFrozen ==
  [][/\ default_scenario_cache' # default_scenario_cache
        => /\ \E t \in Threads : pc[t] = "cc_default" /\ pc'[t] = "idle"
           /\ DOMAIN default_scenario_cache' = {}
     /\ DOMAIN default_scenario_cache = {} => DOMAIN default_scenario_cache' = {}
     /\ default_scenario_cache \in
          {_initialize_default_cache, [n \in {} |-> [id |-> 0, df |-> EmptyDF]]}
    ]_vars

\* after a clear, a request for a pre-warmed variable was computed and
\* stored in the general tier while the default tier stayed empty
C22_Witness ==
  /\ DOMAIN default_scenario_cache = {}
  /\ cache_lock = 0
  /\ \E t \in Threads :
       /\ ret[t].kind = "ok"
       /\ args[t].variables.names[1] \in DOMAIN _initialize_default_cache
       /\ KeyOf(args[t]) \in CachedKeys(query_cache)

\* the number of scenario-based files among the first i of the listing
DiscoveredUpTo(listing, i) ==
  Cardinality({j \in 1..i : listing[j].kind \in {"ok", "no_step"}})

\* C23: __init__ completes even when pre-computing a variable raises: when it
\* returns, the default tier holds an entry for exactly those of the first 10
\* discovered scenario-based variables whose _compute_series succeeded, and
\* the general tier is empty.
C23_PartialPrewarm ==
  fn_out.done =>
    /\ query_cache = <<>>
    /\ DOMAIN default_scenario_cache =
         { Original(fn_in[i].stem) :
             i \in {j \in 1..Len(fn_in) :
                      /\ fn_in[j].kind = "ok"
                      /\ DiscoveredUpTo(fn_in, j) <= 10} }

\* a directory where an early file fails to pre-compute, an unreadable one is
\* skipped, later files are pre-warmed and one falls beyond the first ten
C23_Witness ==
  /\ fn_out.done
  /\ \E i, j, k, l \in 1..Len(fn_in) :
       /\ i < j /\ j < k /\ k < l
       /\ fn_in[i].kind = "no_step"
       /\ fn_in[j].kind = "unreadable"
       /\ fn_in[k].kind = "ok"
       /\ Original(fn_in[k].stem) \in DOMAIN default_scenario_cache
       /\ fn_in[l].kind = "ok"
       /\ Original(fn_in[l].stem) \notin DOMAIN default_scenario_cache

\* the filter mapping as Python compares it: None counts as the empty dict,
\* a list and a tuple are different values
FilterMapping(filters) == Range(filters.items)

\* the filter mapping as json.dumps writes it: a list and a tuple are both
\* arrays
FilterMappingJson(filters) ==
  {[param |-> e.param, array |-> e.kind # "scalar", vals |-> e.vals]
     : e \in Range(filters.items)}

\* the two lists hold the same names the same number of times
SameNames(xs, ys) ==
  \A s \in Range(xs) \cup Range(ys) :
    Cardinality({i \in 1..Len(xs) : xs[i] = s})
      = Cardinality({i \in 1..Len(ys) : ys[i] = s})

\* C24 as stated: _generate_cache_key gives two queries the same key exactly
\* when they have the same set of variable names, the same filter mapping
\* (None and {} alike) and the same time_range.
C24_KeyOfSetMappingWindow ==
  fn_out.done =>
    (fn_out.keys[1] = fn_out.keys[2]
       <=> /\ Range(fn_in[1].variables.names) = Range(fn_in[2].variables.names)
           /\ FilterMapping(fn_in[1].filters) = FilterMapping(fn_in[2].filters)
           /\ fn_in[1].time_range = fn_in[2].time_range)

\* C24, amended: _generate_cache_key gives two queries the same key exactly
\* when they name the same variables the same number of times in any order
\* (a string counting as the one-element list), their filter mappings have
\* the same keys with the same values as JSON writes them (None and {}
\* alike, a list and a tuple of the same elements alike), and their
\* time_range is the same.
C24_KeyOfNamesJsonWindow ==
  fn_out.done =>
    (fn_out.keys[1] = fn_out.keys[2]
       <=> /\ SameNames(fn_in[1].variables.names, fn_in[2].variables.names)
           /\ FilterMappingJson(fn_in[1].filters) = FilterMappingJson(fn_in[2].filters)
           /\ fn_in[1].time_range = fn_in[2].time_range)

\* two queries that differ in the order of the variable list and in the
\* order of the filter keys share a key
C24_Witness ==
  /\ fn_out.done
  /\ fn_out.keys[1] = fn_out.keys[2]
  /\ fn_in[1].variables = Names(<<"Var One", "v2">>)
  /\ fn_in[2].variables = Names(<<"v2", "Var One">>)
  /\ fn_in[1].filters = Dict(<<Scalar("P1", "1"), Scalar("P2", "A")>>)
  /\ fn_in[2].filters = Dict(<<Scalar("P2", "A"), Scalar("P1", "1")>>)

\* C26: two argument tuples that _generate_cache_key maps to the same key
\* have value-equal _compute_series results, also when they differ in
\* include_params, in variable order, in str against one-element list, or in
\* list against tuple filter values.
C26_KeySound ==
  (fn_out.done /\ fn_out.keys[1] = fn_out.keys[2])
    => /\ fn_out.computed[1].kind = fn_out.computed[2].kind
       /\ fn_out.computed[1].df = fn_out.computed[2].df

\* C25: in GET /series/multi a get_series result of zero rows is answered
\* with the 404 response 'No scenarios found matching filters', and filters
\* text that is not JSON with the 400 response: an HTTP error raised in the
\* handler body reaches the client with the status it was raised with.
C25_HttpErrorsKeepStatus ==
  \A t \in Threads :
    multi[t].state = "done"
      => /\ ~multi[t].request.valid => multi[t].response.status = 400
         /\ (multi[t].request.valid /\ multi[t].raised = "none" /\ multi[t].height = 0)
              => /\ multi[t].response.status = 404
                 /\ multi[t].response.detail = "No scenarios found matching filters"

\* C27: _cache_result called for a key that is already in the general tier
\* (two concurrent get_series calls missed on the same key and both insert)
\* removes no other key: the set of cached keys is the same before and after
\* the call, also when the tier is at cache_max_size.
C27_ReinsertKeepsKeys ==
  [][\A t \in Threads :
       (/\ pc[t] = "gs_cache" /\ pc'[t] = "idle"
        /\ KeyOf(args[t]) \in CachedKeys(query_cache))
         => CachedKeys(query_cache') = CachedKeys(query_cache)
    ]_vars

\* C28: from the moment a key is inserted in the general tier until it is
\* evicted or cleared, the value stored under that key does not change, in
\* every interleaving of concurrent get_series calls.  A step of get_series
\* or clear_cache moves some thread's pc; an entry that survives the step
\* keeps its key and the time of its insertion.
C28_StoredValueStable ==
  [][pc' # pc =>
       \A i \in 1..Len(query_cache) : \A j \in 1..Len(query_cache') :
         (query_cache[i].key = query_cache'[j].key /\ query_cache[i].at = query_cache'[j].at)
           => query_cache'[j].obj.df = query_cache[i].obj.df
    ]_vars

\* C29: a get_series call that fails (unknown parameter, missing variable
\* file) leaves the general tier, its eviction order and the default tier
\* as they were: no entry is inserted and none is evicted.  Every step of
\* get_series before the insertion leaves both tiers alone, and a call
\* raises only from such a step.
BeforeInsertion == {"gs_lookup", "gs_default", "gs_default_read", "gs_compute"}

C29_FailedCallNoEffect ==
  [][\A t \in Threads :
       /\ ((pc[t] \in BeforeInsertion \/ (pc[t] = "idle" /\ pc'[t] = "gs_lookup"))
           /\ pc'[t] # pc[t])
            => /\ query_cache' = query_cache
               /\ default_scenario_cache' = default_scenario_cache
       /\ (ret'[t] # ret[t] /\ ret'[t].kind \notin {"ok", "none"})
            => /\ pc[t] \in BeforeInsertion
               /\ pc'[t] = "idle"
               /\ query_cache' = query_cache
               /\ default_scenario_cache' = default_scenario_cache
    ]_vars

\* a call has raised ValueError or FileNotFoundError while the general tier
\* was full, so that an insertion would have evicted an entry
C29_Witness ==
  /\ ret[1].kind \in {"ValueError", "FileNotFoundError"}
  /\ pc[1] = "idle"
  /\ Len(query_cache) = cache_max_size
  /\ KeyOf(args[1]) \notin CachedKeys(query_cache)

\* C30: deadlock freedom.  The cache lock is never requested by the thread
\* that holds it and every acquisition is followed by a release (also on a
\* general-tier hit), so for a finite set of concurrent get_series,
\* clear_cache and get_cache_stats calls every call eventually completes.
\* The lock is held only between the two halves of clear_cache, by a thread
\* that requests nothing there; once no further call is begun, every call
\* in progress reaches its end.
NoNewCall == \A t \in Threads : pc[t] = "idle" => pc'[t] = "idle"

LockHeldOnlyInClear ==
  /\ cache_lock \in Threads \cup {0}
  /\ \A t \in Threads : cache_lock = t <=> pc[t] = "cc_default"

C30_DeadlockFree ==
  /\ []LockHeldOnlyInClear
  /\ <>[][NoNewCall]_vars => \A t \in Threads : (pc[t] # "idle") ~> (pc[t] = "idle")

\* a get_series call waits for the lock while clear_cache holds it
C30_Witness ==
  /\ cache_lock = 2
  /\ pc[1] \in {"gs_lookup", "gs_cache"}

====
